---------------------------- MODULE Spec2Model ----------------------------
(***************************************************************************)
(* A model of gravity.py: the N-body sandbox's input boxes, spawner, main  *)
(* loop and the three physics passes (gravity, update, collision).         *)
(*                                                                         *)
(* Numbers.  The program computes in Python floats.  The model computes    *)
(* in rationals <<n, d>> (d > 0, lowest terms): every +, -, *, / of the    *)
(* source is the exact operation wherever the exact result fits the        *)
(* integers of the checker, and a rounded one elsewhere.  math.sqrt is     *)
(* exact where the root is rational; an irrational root is rounded up (it  *)
(* stays positive, as the root of a positive float does).  The rounding of *)
(* the 53-bit floats themselves is not modelled.  The specifications that  *)
(* settle numerical claims (SpecGravity, SpecMotion, SpecCollision) draw   *)
(* their inputs so that every operation and every root is exact.           *)
(***************************************************************************)
EXTENDS Integers, Sequences, FiniteSets, TLC

VARIABLES planets,     \* the list `planets` of Planet records
          mass_box,    \* InputBox: [text, active]
          radius_box,  \* InputBox: [text, active]
          running,     \* the main loop's flag
          n,           \* n = len(planets), read at the start of the physics
          pc,          \* the main loop's position
          pre,         \* history: `planets` as the running pass found it
          event,       \* the event the loop handled last
          frames,      \* frames completed (bounded by MaxFrames)
          keys         \* key events handled (bounded by MaxKeys)

vars == <<planets, mass_box, radius_box, running, n, pc, pre, event, frames, keys>>

---------------------------------------------------------------------------
(* Program constants *)
WIDTH == 1200
HEIGHT == 800
G == 400
MAX_VELOCITY == 25
CONTACT_MARGIN == 5
MAX_TEXT == 5
DEFAULT_MASS == 50
DEFAULT_RADIUS == 10

(* Bounds of the model *)
MaxBodies == 2   \* bodies spawned
MaxFrames == 1   \* frames run
MaxKeys == 3     \* key events handled
MaxTyped == 1    \* a character is typed only into a text shorter than this

---------------------------------------------------------------------------
(* Rational arithmetic standing for the float operators.  An operation is *)
(* exact whenever its result fits TLC's 32-bit integers; where it does not *)
(* the operands are first rounded to multiples of 1/GRID, as a float       *)
(* operation rounds where the exact result is not representable.           *)
(* A value that an operator uses more than once is a parameter of the      *)
(* operator, never a LET definition: TLC evaluates a parameter once.       *)

MAXINT == 2147483646 + 1
GRID == 2 * 32

Abs(i) == IF i < 0 THEN -i ELSE i

RECURSIVE GCD(_, _)
GCD(a, b) == IF b = 0 THEN a ELSE GCD(b, a % b)

\* num/den with the common divisor g taken out and the sign in the numerator
Reduced(num, den, g) ==
    IF den < 0 THEN <<-(num \div g), -(den \div g)>> ELSE <<num \div g, den \div g>>

\* the rational num/den in lowest terms, den # 0
Rat(num, den) == Reduced(num, den, GCD(Abs(num), Abs(den)))

R(i) == <<i, 1>>
Zero == R(0)

Neg(a) == <<-a[1], a[2]>>

\* x * y fits; x + y fits
FitsMul(x, y) == y = 0 \/ Abs(x) <= MAXINT \div Abs(y)
FitsAdd(x, y) == Abs(x) <= MAXINT - Abs(y)

\* num/den rounded to the nearest multiple of 1/GRID
Rounded(num, den) ==
    Rat((num \div den) * GRID + ((num % den) * GRID + den \div 2) \div den, GRID)

\* a, rounded to the nearest multiple of 1/GRID unless its denominator is
\* at most GRID already
Coarse(a) ==
    IF a[2] <= GRID THEN a
    ELSE IF a[2] > MAXINT \div (2 * GRID)
    THEN Rounded(a[1] \div (2 * GRID), a[2] \div (2 * GRID))
    ELSE Rounded(a[1], a[2])

\* a + b over the common denominator a[2] * b[2] / g, g = GCD(a[2], b[2])
SumOver(a, b, g) ==
    Rat(a[1] * (b[2] \div g) + b[1] * (a[2] \div g), (a[2] \div g) * b[2])

FitsSum(a, b, g) ==
    /\ FitsMul(a[1], b[2] \div g)
    /\ FitsMul(b[1], a[2] \div g)
    /\ FitsMul(a[2] \div g, b[2])
    /\ FitsAdd(a[1] * (b[2] \div g), b[1] * (a[2] \div g))

AddExact(a, b) == SumOver(a, b, GCD(a[2], b[2]))

Add(a, b) ==
    IF FitsSum(a, b, GCD(a[2], b[2]))
    THEN AddExact(a, b)
    ELSE AddExact(Coarse(a), Coarse(b))

Sub(a, b) == Add(a, Neg(b))

\* a * b, cancelling g1 = GCD(|a[1]|, b[2]) and g2 = GCD(|b[1]|, a[2]) first
ProdOver(a, b, g1, g2) ==
    Rat((a[1] \div g1) * (b[1] \div g2), (a[2] \div g2) * (b[2] \div g1))

FitsProd(a, b, g1, g2) ==
    /\ FitsMul(a[1] \div g1, b[1] \div g2)
    /\ FitsMul(a[2] \div g2, b[2] \div g1)

MulExact(a, b) == ProdOver(a, b, GCD(Abs(a[1]), b[2]), GCD(Abs(b[1]), a[2]))

Mul(a, b) ==
    IF FitsProd(a, b, GCD(Abs(a[1]), b[2]), GCD(Abs(b[1]), a[2]))
    THEN MulExact(a, b)
    ELSE MulExact(Coarse(a), Coarse(b))

\* a / b for b # 0 (the callers model ZeroDivisionError before dividing)
Div(a, b) == Mul(a, IF b[1] < 0 THEN <<-b[2], -b[1]>> ELSE <<b[2], b[1]>>)

Lt(a, b) == Sub(a, b)[1] < 0
Gt(a, b) == Lt(b, a)
Le(a, b) == ~Lt(b, a)

\* floor of the square root of a natural number, by bisection on [lo, hi)
RECURSIVE ISqrtIn(_, _, _)
ISqrtIn(k, lo, hi) ==
    IF hi - lo <= 1 THEN lo
    ELSE IF ((lo + hi) \div 2) * ((lo + hi) \div 2) <= k
    THEN ISqrtIn(k, (lo + hi) \div 2, hi)
    ELSE ISqrtIn(k, lo, (lo + hi) \div 2)

ISqrt(k) == ISqrtIn(k, 0, IF k < 46340 THEN k + 1 ELSE 46341)

\* the root of a rounded up to the next multiple of 1/s
RootUp(a, s) == Rat(ISqrt((a[1] * s * s) \div a[2]) + 1, s)

\* rn, rd: the integer roots of the numerator and the denominator of a
RootFrom(a, rn, rd) ==
    IF rn * rn = a[1] /\ rd * rd = a[2] THEN <<rn, rd>>
    ELSE IF FitsMul(a[1], GRID * GRID) THEN RootUp(a, GRID)
    ELSE IF FitsMul(a[1], 64) THEN RootUp(a, 8)
    ELSE RootUp(a, 1)

\* math.sqrt(a), a >= 0: exact where the root is rational, else rounded up to
\* the next multiple of 1/s for the finest s of GRID, 8, 1 that fits
Sqrt(a) == RootFrom(a, ISqrt(a[1]), ISqrt(a[2]))

DT == <<1, 60>>
RESTITUTION == <<-4, 5>>
HALF == <<1, 2>>

---------------------------------------------------------------------------
(* Planet *)

Planet(x, y, mass, radius) ==
    [x |-> x, y |-> y, vx |-> Zero, vy |-> Zero, mass |-> mass, radius |-> radius]

---------------------------------------------------------------------------
(* Physics functions.  Each returns the bodies it was given as it leaves   *)
(* them, and err = TRUE when it raised ZeroDivisionError at a division by  *)
(* zero (the statements before the raising one have taken effect).  A      *)
(* function of the source is a chain of operators here, one per group of   *)
(* local variables, the last statements first: f_x_y(..., x, y) is the     *)
(* rest of f once its locals x and y are computed.                         *)

Outcome(p1, p2, err) == [p1 |-> p1, p2 |-> p2, err |-> err]

\* Mutation of apply_gravity_fx_fy: both accelerations divide by p1.mass
apply_gravity_fx_fy_one_mass(p1, p2, fx, fy) ==
    IF p1.mass = Zero THEN Outcome(p1, p2, TRUE)
    ELSE Outcome([p1 EXCEPT !.vx = Add(@, Mul(Div(fx, p1.mass), DT)),
                            !.vy = Add(@, Mul(Div(fy, p1.mass), DT))],
                 [p2 EXCEPT !.vx = Sub(@, Mul(Div(fx, p1.mass), DT)),
                            !.vy = Sub(@, Mul(Div(fy, p1.mass), DT))], FALSE)

\* p1.vx += fx / p1.mass * DT ... p2.vy -= fy / p2.mass * DT
apply_gravity_fx_fy(p1, p2, fx, fy) ==
    IF p1.mass = Zero THEN Outcome(p1, p2, TRUE)
    ELSE IF p2.mass = Zero
    THEN Outcome([p1 EXCEPT !.vx = Add(@, Mul(Div(fx, p1.mass), DT)),
                            !.vy = Add(@, Mul(Div(fy, p1.mass), DT))], p2, TRUE)
    ELSE Outcome([p1 EXCEPT !.vx = Add(@, Mul(Div(fx, p1.mass), DT)),
                            !.vy = Add(@, Mul(Div(fy, p1.mass), DT))],
                 [p2 EXCEPT !.vx = Sub(@, Mul(Div(fx, p2.mass), DT)),
                            !.vy = Sub(@, Mul(Div(fy, p2.mass), DT))], FALSE)

\* fx = force * dx / dist; fy = force * dy / dist
apply_gravity_force(p1, p2, dx, dy, dist, force) ==
    IF dist = Zero THEN Outcome(p1, p2, TRUE)
    ELSE apply_gravity_fx_fy(p1, p2, Div(Mul(force, dx), dist), Div(Mul(force, dy), dist))

\* Mutation of apply_gravity_dist: the contact test is >= where the code has >
apply_gravity_dist_ge(p1, p2, dx, dy, dist_sq, dist) ==
    IF Le(Add(Add(p1.radius, p2.radius), R(CONTACT_MARGIN)), dist)
    THEN IF dist_sq = Zero THEN Outcome(p1, p2, TRUE)
         ELSE apply_gravity_force(p1, p2, dx, dy, dist,
                                  Div(Mul(Mul(R(G), p1.mass), p2.mass), dist_sq))
    ELSE Outcome(p1, p2, FALSE)

\* if dist > p1.radius + p2.radius + 5: force = G * p1.mass * p2.mass / dist_sq
apply_gravity_dist(p1, p2, dx, dy, dist_sq, dist) ==
    IF Gt(dist, Add(Add(p1.radius, p2.radius), R(CONTACT_MARGIN)))
    THEN IF dist_sq = Zero THEN Outcome(p1, p2, TRUE)
         ELSE apply_gravity_force(p1, p2, dx, dy, dist,
                                  Div(Mul(Mul(R(G), p1.mass), p2.mass), dist_sq))
    ELSE Outcome(p1, p2, FALSE)

\* if dist_sq == 0: return; dist = math.sqrt(dist_sq)
apply_gravity_dist_sq(p1, p2, dx, dy, dist_sq) ==
    IF dist_sq = Zero THEN Outcome(p1, p2, FALSE)
    ELSE apply_gravity_dist(p1, p2, dx, dy, dist_sq, Sqrt(dist_sq))

\* dist_sq = dx * dx + dy * dy
apply_gravity_dx_dy(p1, p2, dx, dy) ==
    apply_gravity_dist_sq(p1, p2, dx, dy, Add(Mul(dx, dx), Mul(dy, dy)))

apply_gravity(p1, p2) ==
    apply_gravity_dx_dy(p1, p2, Sub(p2.x, p1.x), Sub(p2.y, p1.y))

\* Mutation of clamp_velocity_scale: vy is not scaled
clamp_velocity_scale_vx(p, scale) == [p EXCEPT !.vx = Mul(@, scale)]

\* scale = MAX_VELOCITY / v; p.vx *= scale; p.vy *= scale
clamp_velocity_scale(p, scale) ==
    [p EXCEPT !.vx = Mul(@, scale), !.vy = Mul(@, scale)]

\* if v > MAX_VELOCITY
clamp_velocity_v(p, v) ==
    IF Gt(v, R(MAX_VELOCITY))
    THEN IF v = Zero THEN [p |-> p, err |-> TRUE]
         ELSE [p |-> clamp_velocity_scale(p, Div(R(MAX_VELOCITY), v)), err |-> FALSE]
    ELSE [p |-> p, err |-> FALSE]

clamp_velocity(p) ==
    clamp_velocity_v(p, Sqrt(Add(Mul(p.vx, p.vx), Mul(p.vy, p.vy))))

\* p.x += p.vx * DT * 60; p.y += p.vy * DT * 60
move(p) ==
    [p EXCEPT !.x = Add(@, Mul(Mul(p.vx, DT), R(60))),
              !.y = Add(@, Mul(Mul(p.vy, DT), R(60)))]

\* Mutation of bounce_left: vx changes sign and keeps its magnitude
bounce_left_elastic(p) ==
    IF Lt(Sub(p.x, p.radius), Zero)
    THEN [p EXCEPT !.x = p.radius, !.vx = Neg(@)]
    ELSE p

\* if p.x - p.radius < 0
bounce_left(p) ==
    IF Lt(Sub(p.x, p.radius), Zero)
    THEN [p EXCEPT !.x = p.radius, !.vx = Mul(@, RESTITUTION)]
    ELSE p

\* Mutation of bounce_right: the centre, not the right edge, is put on the wall
bounce_right_centre(p) ==
    IF Gt(Add(p.x, p.radius), R(WIDTH))
    THEN [p EXCEPT !.x = R(WIDTH), !.vx = Mul(@, RESTITUTION)]
    ELSE p

\* if p.x + p.radius > WIDTH
bounce_right(p) ==
    IF Gt(Add(p.x, p.radius), R(WIDTH))
    THEN [p EXCEPT !.x = Sub(R(WIDTH), p.radius), !.vx = Mul(@, RESTITUTION)]
    ELSE p

\* if p.y - p.radius < 0
bounce_top(p) ==
    IF Lt(Sub(p.y, p.radius), Zero)
    THEN [p EXCEPT !.y = p.radius, !.vy = Mul(@, RESTITUTION)]
    ELSE p

\* if p.y + p.radius > HEIGHT
bounce_bottom(p) ==
    IF Gt(Add(p.y, p.radius), R(HEIGHT))
    THEN [p EXCEPT !.y = Sub(R(HEIGHT), p.radius), !.vy = Mul(@, RESTITUTION)]
    ELSE p

update_position(p) == bounce_bottom(bounce_top(bounce_right(bounce_left(move(p)))))

\* p1.x -= nx * overlap ... p2.y += ny * overlap
handle_collision_overlap(p1, p2, overlap, nx, ny) ==
    Outcome([p1 EXCEPT !.x = Sub(@, Mul(nx, overlap)), !.y = Sub(@, Mul(ny, overlap))],
            [p2 EXCEPT !.x = Add(@, Mul(nx, overlap)), !.y = Add(@, Mul(ny, overlap))],
            FALSE)

\* Mutation of handle_collision_dist: each body moves the whole penetration
\* depth (the factor 0.5 is missing)
handle_collision_dist_whole(p1, p2, dx, dy, dist, min_dist) ==
    IF Lt(dist, min_dist) /\ Gt(dist, Zero)
    THEN IF dist = Zero THEN Outcome(p1, p2, TRUE)
         ELSE handle_collision_overlap(p1, p2, Sub(min_dist, dist),
                                       Div(dx, dist), Div(dy, dist))
    ELSE Outcome(p1, p2, FALSE)

\* if dist < min_dist and dist > 0: overlap = 0.5 * (min_dist - dist);
\* nx = dx / dist; ny = dy / dist
handle_collision_dist(p1, p2, dx, dy, dist, min_dist) ==
    IF Lt(dist, min_dist) /\ Gt(dist, Zero)
    THEN IF dist = Zero THEN Outcome(p1, p2, TRUE)
         ELSE handle_collision_overlap(p1, p2, Mul(HALF, Sub(min_dist, dist)),
                                       Div(dx, dist), Div(dy, dist))
    ELSE Outcome(p1, p2, FALSE)

\* Mutation of handle_collision_dx_dy: the rest of the function runs without
\* the `dist > 0` half of the guard
handle_collision_dx_dy_unguarded(p1, p2, dx, dy) ==
    IF Lt(Sqrt(Add(Mul(dx, dx), Mul(dy, dy))), Add(p1.radius, p2.radius))
    THEN IF Sqrt(Add(Mul(dx, dx), Mul(dy, dy))) = Zero THEN Outcome(p1, p2, TRUE)
         ELSE handle_collision_overlap(
                  p1, p2,
                  Mul(HALF, Sub(Add(p1.radius, p2.radius),
                                Sqrt(Add(Mul(dx, dx), Mul(dy, dy))))),
                  Div(dx, Sqrt(Add(Mul(dx, dx), Mul(dy, dy)))),
                  Div(dy, Sqrt(Add(Mul(dx, dx), Mul(dy, dy)))))
    ELSE Outcome(p1, p2, FALSE)

\* dist = math.sqrt(dx * dx + dy * dy); min_dist = p1.radius + p2.radius
handle_collision_dx_dy(p1, p2, dx, dy) ==
    handle_collision_dist(p1, p2, dx, dy, Sqrt(Add(Mul(dx, dx), Mul(dy, dy))),
                          Add(p1.radius, p2.radius))

handle_collision(p1, p2) ==
    handle_collision_dx_dy(p1, p2, Sub(p2.x, p1.x), Sub(p2.y, p1.y))

---------------------------------------------------------------------------
(* InputBox *)

Digits == {"0", "1", "2", "3", "4", "5", "6", "7", "8", "9"}

isdigit(c) == c \in Digits

DigitVal(c) ==
    CASE c = "0" -> 0 [] c = "1" -> 1 [] c = "2" -> 2 [] c = "3" -> 3
      [] c = "4" -> 4 [] c = "5" -> 5 [] c = "6" -> 6 [] c = "7" -> 7
      [] c = "8" -> 8 [] c = "9" -> 9

InputBox(x, y, w, h, text) ==
    [rect |-> [x |-> x, y |-> y, w |-> w, h |-> h], text |-> text, active |-> FALSE]

\* pygame.Rect.collidepoint: the left and top edges are inside, the right and
\* bottom edges are not
collidepoint(rect, pos) ==
    /\ rect.x <= pos[1] /\ pos[1] < rect.x + rect.w
    /\ rect.y <= pos[2] /\ pos[2] < rect.y + rect.h

handle_event(box, ev) ==
    LET a == IF ev.type = "MOUSEBUTTONDOWN"
             THEN [box EXCEPT !.active = collidepoint(box.rect, ev.pos)]
             ELSE box
    IN  IF ev.type = "KEYDOWN" /\ a.active
        THEN IF ev.key = "K_RETURN"
             THEN [a EXCEPT !.active = FALSE]
             ELSE IF ev.key = "K_BACKSPACE"
             THEN [a EXCEPT !.text = SubSeq(@, 1, Len(@) - 1)]
             ELSE IF Len(a.text) < MAX_TEXT /\ (isdigit(ev.unicode) \/ ev.unicode = ".")
             THEN [a EXCEPT !.text = Append(@, ev.unicode)]
             ELSE a
        ELSE a

\* float(text) for a text of digits and dots: the text is a float literal when
\* it holds at most one dot and at least one digit
NDots(text) == Cardinality({i \in 1..Len(text) : text[i] = "."})
NDigits(text) == Cardinality({i \in 1..Len(text) : isdigit(text[i])})
IsFloatLiteral(text) == NDots(text) <= 1 /\ NDigits(text) >= 1

RECURSIVE Pow10(_)
Pow10(k) == IF k = 0 THEN 1 ELSE 10 * Pow10(k - 1)

\* the digits of text[1..i] read as one decimal number
RECURSIVE DigitsValue(_, _)
DigitsValue(text, i) ==
    IF i = 0 THEN 0
    ELSE IF text[i] = "." THEN DigitsValue(text, i - 1)
    ELSE 10 * DigitsValue(text, i - 1) + DigitVal(text[i])

\* the number of digits after the dot
FracDigits(text) ==
    Cardinality({i \in 1..Len(text) :
                    isdigit(text[i]) /\ \E j \in 1..(i - 1) : text[j] = "."})

float(text) == Rat(DigitsValue(text, Len(text)), Pow10(FracDigits(text)))

get_value(box, default) ==
    IF IsFloatLiteral(box.text) THEN float(box.text) ELSE R(default)

---------------------------------------------------------------------------
(* The passes of the main loop.  Each returns the list as it leaves it and *)
(* err = TRUE when a call in it raised.                                    *)

\* the list after a call on the pair (i, j) that returned r
store(ps, i, j, r) == [ps EXCEPT ![i] = r.p1, ![j] = r.p2]

\* for i in range(n - 1): for j in range(i + 1, n): apply_gravity(planets[i], planets[j])
\* (indices from 1 here), from the pair (i, j) on; gravity_pair is the rest of
\* the pass once the call on the pair (i, j) has returned r
RECURSIVE gravity_pass(_, _, _, _)
gravity_pair(ps, i, j, cnt, r) ==
    IF r.err THEN [ps |-> store(ps, i, j, r), err |-> TRUE]
    ELSE gravity_pass(store(ps, i, j, r), i, j + 1, cnt)

gravity_pass(ps, i, j, cnt) ==
    IF i > cnt - 1 THEN [ps |-> ps, err |-> FALSE]
    ELSE IF j > cnt THEN gravity_pass(ps, i + 1, i + 2, cnt)
    ELSE gravity_pair(ps, i, j, cnt, apply_gravity(ps[i], ps[j]))

\* for p in planets: clamp_velocity(p); update_position(p), from index k on;
\* update_body is the rest of the pass once clamp_velocity(planets[k]) has
\* returned r
RECURSIVE update_pass(_, _)
update_body(ps, k, r) ==
    IF r.err THEN [ps |-> ps, err |-> TRUE]
    ELSE update_pass([ps EXCEPT ![k] = update_position(r.p)], k + 1)

update_pass(ps, k) ==
    IF k > Len(ps) THEN [ps |-> ps, err |-> FALSE]
    ELSE update_body(ps, k, clamp_velocity(ps[k]))

\* for i in range(n - 1): for j in range(i + 1, n): handle_collision(planets[i], planets[j])
RECURSIVE collision_pass(_, _, _, _)
collision_pair(ps, i, j, cnt, r) ==
    IF r.err THEN [ps |-> store(ps, i, j, r), err |-> TRUE]
    ELSE collision_pass(store(ps, i, j, r), i, j + 1, cnt)

collision_pass(ps, i, j, cnt) ==
    IF i > cnt - 1 THEN [ps |-> ps, err |-> FALSE]
    ELSE IF j > cnt THEN collision_pass(ps, i + 1, i + 2, cnt)
    ELSE collision_pair(ps, i, j, cnt, handle_collision(ps[i], ps[j]))

\* Mutation of spawn: the new body is put in front of the list
spawn_front(ps, pos, mass, radius) ==
    <<Planet(R(pos[1]), R(pos[2]), mass, radius)>> \o ps

\* planets.append(Planet(event.pos[0], event.pos[1], mass, radius, color))
spawn(ps, pos, mass, radius) ==
    Append(ps, Planet(R(pos[1]), R(pos[2]), mass, radius))

---------------------------------------------------------------------------
(* The events the model sends *)

NoEvent == [type |-> "NONE"]

\* clicks: inside the radius box, and two places of the arena 10 apart (bodies
\* of the default radius 10 overlap there, bodies of radius 1 or 0 attract)
ClickPositions == {<<110, 20>>, <<300, 300>>, <<306, 308>>}

KeyEvents ==
    { [type |-> "KEYDOWN", key |-> "K_RETURN", unicode |-> "CR"],
      [type |-> "KEYDOWN", key |-> "K_BACKSPACE", unicode |-> "BS"],
      [type |-> "KEYDOWN", key |-> "K_0", unicode |-> "0"],
      [type |-> "KEYDOWN", key |-> "K_a", unicode |-> "a"] }

\* the bound on typing: no character is sent to an active box whose text
\* already holds MaxTyped characters
WithinTyped(box, ev) ==
    (box.active /\ ev.key \notin {"K_RETURN", "K_BACKSPACE"}) => Len(box.text) < MaxTyped

---------------------------------------------------------------------------
(* The main loop *)

Init ==
    /\ planets = <<>>
    /\ mass_box = InputBox(10, 10, 80, 30, <<"5", "0">>)
    /\ radius_box = InputBox(100, 10, 80, 30, <<"1", "0">>)
    /\ running = TRUE
    /\ n = 0
    /\ pc = "events"
    /\ pre = <<>>
    /\ event = NoEvent
    /\ frames = 0
    /\ keys = 0

\* one iteration of `for event in pygame.event.get()` with a QUIT event
HandleQuit ==
    /\ pc = "events"
    /\ event' = [type |-> "QUIT"]
    /\ running' = FALSE
    /\ mass_box' = handle_event(mass_box, event')
    /\ radius_box' = handle_event(radius_box, event')
    /\ UNCHANGED <<planets, n, pc, pre, frames, keys>>

\* one iteration with a KEYDOWN event
HandleKey ==
    /\ pc = "events"
    /\ keys < MaxKeys
    /\ \E ev \in KeyEvents :
          /\ WithinTyped(mass_box, ev) /\ WithinTyped(radius_box, ev)
          /\ event' = ev
          /\ mass_box' = handle_event(mass_box, ev)
          /\ radius_box' = handle_event(radius_box, ev)
    /\ keys' = keys + 1
    /\ UNCHANGED <<planets, running, n, pc, pre, frames>>

\* one iteration with a MOUSEBUTTONDOWN event: a click outside both boxes spawns
HandleMouse ==
    /\ pc = "events"
    /\ \E pos \in ClickPositions :
          LET ev == [type |-> "MOUSEBUTTONDOWN", pos |-> pos]
              mb == handle_event(mass_box, ev)
              rb == handle_event(radius_box, ev)
          IN  /\ event' = ev
              /\ mass_box' = mb
              /\ radius_box' = rb
              /\ IF ~(collidepoint(mb.rect, pos) \/ collidepoint(rb.rect, pos))
                 THEN /\ Len(planets) < MaxBodies
                      /\ planets' = spawn(planets, pos, get_value(mb, DEFAULT_MASS),
                                          get_value(rb, DEFAULT_RADIUS))
                 ELSE planets' = planets
    /\ UNCHANGED <<running, n, pc, pre, frames, keys>>

\* Mutation of BeginPhysics: n is not read again (it keeps the length an
\* earlier frame found)
BeginPhysicsStale ==
    /\ pc = "events"
    /\ frames < MaxFrames
    /\ pc' = "gravity"
    /\ event' = NoEvent
    /\ UNCHANGED <<planets, mass_box, radius_box, running, n, pre, frames, keys>>

\* the events of the frame are handled: n = len(planets)
BeginPhysics ==
    /\ pc = "events"
    /\ frames < MaxFrames
    /\ n' = Len(planets)
    /\ pc' = "gravity"
    /\ event' = NoEvent
    /\ UNCHANGED <<planets, mass_box, radius_box, running, pre, frames, keys>>

GravityPass ==
    /\ pc = "gravity"
    /\ \E r \in {gravity_pass(planets, 1, 2, n)} :
          /\ planets' = r.ps
          /\ pc' = IF r.err THEN "crashed" ELSE "update"
    /\ pre' = planets
    /\ UNCHANGED <<mass_box, radius_box, running, n, event, frames, keys>>

UpdatePass ==
    /\ pc = "update"
    /\ \E r \in {update_pass(planets, 1)} :
          /\ planets' = r.ps
          /\ pc' = IF r.err THEN "crashed" ELSE "collision"
    /\ pre' = planets
    /\ UNCHANGED <<mass_box, radius_box, running, n, event, frames, keys>>

CollisionPass ==
    /\ pc = "collision"
    /\ \E r \in {collision_pass(planets, 1, 2, n)} :
          /\ planets' = r.ps
          /\ pc' = IF r.err THEN "crashed" ELSE "draw"
    /\ pre' = planets
    /\ UNCHANGED <<mass_box, radius_box, running, n, event, frames, keys>>

\* drawing and pygame.display.flip(); then `while running`
Draw ==
    /\ pc = "draw"
    /\ frames' = frames + 1
    /\ pc' = IF running THEN "events" ELSE "done"
    /\ UNCHANGED <<planets, mass_box, radius_box, running, n, pre, event, keys>>

Next ==
    \/ HandleQuit
    \/ HandleKey
    \/ HandleMouse
    \/ BeginPhysics
    \/ GravityPass
    \/ UpdatePass
    \/ CollisionPass
    \/ Draw

Spec == Init /\ [][Next]_vars

---------------------------------------------------------------------------
(* Specifications of one pass, started on bodies drawn from bounded sets:  *)
(* states the program is in when the pass starts.  Positions, radii and    *)
(* velocities are drawn so that every distance and every speed is          *)
(* rational (3-4-5, 5-12-13, 7-24-25 triangles): the arithmetic is exact. *)

Body(x, y, vx, vy, mass, radius) ==
    [x |-> x, y |-> y, vx |-> vx, vy |-> vy, mass |-> mass, radius |-> radius]

\* the state of the loop around a pass that starts on the list ps
AtPass(ps, at) ==
    /\ planets = ps
    /\ mass_box = InputBox(10, 10, 80, 30, <<"5", "0">>)
    /\ radius_box = InputBox(100, 10, 80, 30, <<"1", "0">>)
    /\ running = TRUE
    /\ n = Len(ps)
    /\ pc = at
    /\ pre = ps
    /\ event = NoEvent
    /\ frames = 0
    /\ keys = 0

\* offsets of the second body from the first: coincident, and distances
\* 5, 10, 15, 16, 20, 25, 50, 60, 100
Offsets ==
    { <<0, 0>>, <<3, 4>>, <<-6, -8>>, <<9, 12>>, <<15, 0>>, <<0, -15>>, <<16, 0>>,
      <<-12, 16>>, <<15, 20>>, <<30, 40>>, <<-48, -14>>, <<0, 60>>, <<100, 0>> }

GravityMasses == {Zero, R(3), R(50), R(100)}
GravityRadii == {Zero, R(5), R(10)}
Velocities1 == {<<Zero, Zero>>, <<R(7), R(-2)>>}
Velocities2 == {<<Zero, Zero>>, <<R(-1), R(30)>>}

InitGravity ==
    \E o \in Offsets, m1 \in GravityMasses, m2 \in GravityMasses,
       r1 \in GravityRadii, r2 \in GravityRadii,
       v1 \in Velocities1, v2 \in Velocities2 :
        AtPass(<<Body(R(300), R(300), v1[1], v1[2], m1, r1),
                 Body(R(300 + o[1]), R(300 + o[2]), v2[1], v2[2], m2, r2)>>,
               "gravity")

SpecGravity == InitGravity /\ [][GravityPass]_vars

\* velocities of speed 0, 5, 25, 26, 50, 65, 1000 and 5000
MotionVelocities ==
    { <<0, 0>>, <<-3, -4>>, <<3, 4>>, <<-25, 0>>, <<-7, 24>>, <<15, -20>>,
      <<-26, 0>>, <<0, 26>>, <<-30, -40>>, <<30, 40>>, <<-25, 60>>,
      <<-1000, 0>>, <<3000, -4000>> }
MotionXs == {0, 4, 10, 600, 1195, 1200}
MotionYs == {0, 10, 400, 795}
MotionRadii == {0, 5, 10, 400, 600, 700}

InitMotion ==
    \E x \in MotionXs, y \in MotionYs, r \in MotionRadii, v \in MotionVelocities :
        AtPass(<<Body(R(x), R(y), R(v[1]), R(v[2]), R(DEFAULT_MASS), R(r))>>, "update")

SpecMotion == InitMotion /\ [][UpdatePass]_vars

CollisionRadii == {Zero, <<5, 2>>, R(5), R(10)}

InitCollision ==
    \E o \in Offsets, r1 \in CollisionRadii, r2 \in CollisionRadii,
       v1 \in Velocities1, v2 \in Velocities2 :
        AtPass(<<Body(R(300), R(300), v1[1], v1[2], R(DEFAULT_MASS), r1),
                 Body(R(300 + o[1]), R(300 + o[2]), v2[1], v2[2], R(DEFAULT_MASS), r2)>>,
               "collision")

SpecCollision == InitCollision /\ [][CollisionPass]_vars

\* one whole tick on two bodies of positive mass and radius
TickOffsets == {<<0, 0>>, <<3, 4>>, <<1, 1>>, <<9, 12>>, <<30, 40>>, <<-20, 35>>}
TickMasses == {<<1, 2>>, R(50)}
TickRadii == {<<1, 2>>, R(5), R(10)}
TickVelocities == {<<Zero, Zero>>, <<R(30), R(40)>>, <<R(-3), R(1)>>}

InitTick ==
    \E o \in TickOffsets, m1 \in TickMasses, m2 \in TickMasses,
       r1 \in TickRadii, r2 \in TickRadii,
       v1 \in TickVelocities, v2 \in TickVelocities :
        AtPass(<<Body(R(300), R(300), v1[1], v1[2], m1, r1),
                 Body(R(300 + o[1]), R(300 + o[2]), v2[1], v2[2], m2, r2)>>,
               "gravity")

NextTick == GravityPass \/ UpdatePass \/ CollisionPass

SpecTick == InitTick /\ [][NextTick]_vars

---------------------------------------------------------------------------
(* Properties.  `pre` holds the bodies as the pass that ran last found     *)
(* them, `planets` the bodies as it left them.  Distances are compared by  *)
(* their squares, which needs no square root.                              *)

Sq(a) == Mul(a, a)

\* the squared distance of the centres of p and q
DistSq(p, q) == Add(Sq(Sub(q.x, p.x)), Sq(Sub(q.y, p.y)))

\* the squared speed of p
SpeedSq(p) == Add(Sq(p.vx), Sq(p.vy))

\* the contact range of p and q: p.radius + q.radius + 5
ContactRange(p, q) == Add(Add(p.radius, q.radius), R(CONTACT_MARGIN))

\* the gravity pass has run on the pair pre[1], pre[2]
GravityRan == pc \in {"update", "crashed"}

\* C3: Newton's third law.  After one apply_gravity call on a pair outside
\* contact range, mass_1 * dv_1 = -(mass_2 * dv_2) in x and in y, and with equal
\* masses dv_1 = -dv_2.
C3_ThirdLaw ==
    (GravityRan /\ Gt(DistSq(pre[1], pre[2]), Sq(ContactRange(pre[1], pre[2])))) =>
        /\ Mul(pre[1].mass, Sub(planets[1].vx, pre[1].vx))
             = Neg(Mul(pre[2].mass, Sub(planets[2].vx, pre[2].vx)))
        /\ Mul(pre[1].mass, Sub(planets[1].vy, pre[1].vy))
             = Neg(Mul(pre[2].mass, Sub(planets[2].vy, pre[2].vy)))
        /\ pre[1].mass = pre[2].mass =>
              /\ Sub(planets[1].vx, pre[1].vx) = Neg(Sub(planets[2].vx, pre[2].vx))
              /\ Sub(planets[1].vy, pre[1].vy) = Neg(Sub(planets[2].vy, pre[2].vy))

\* C3's case: a call on moving bodies of different positive masses outside
\* contact range has changed both velocities
C3_Witness ==
    /\ pc = "update"
    /\ Gt(DistSq(pre[1], pre[2]), Sq(ContactRange(pre[1], pre[2])))
    /\ Gt(pre[1].mass, Zero) /\ Gt(pre[2].mass, pre[1].mass)
    /\ pre[1].vx # Zero /\ pre[2].vy # Zero
    /\ planets[1].vx # pre[1].vx /\ planets[1].vy # pre[1].vy
    /\ planets[2].vx # pre[2].vx /\ planets[2].vy # pre[2].vy

\* C4: no force at or inside contact range.  After apply_gravity on a pair
\* with dist <= r_1 + r_2 + 5 both velocities are what they were, and the
\* gravity pass leaves every position what it was.
C4_NoForceInContact ==
    GravityRan =>
        /\ \A k \in 1..Len(pre) :
              planets[k].x = pre[k].x /\ planets[k].y = pre[k].y
        /\ Le(DistSq(pre[1], pre[2]), Sq(ContactRange(pre[1], pre[2]))) =>
              \A k \in 1..Len(pre) :
                  planets[k].vx = pre[k].vx /\ planets[k].vy = pre[k].vy

\* C4's case: the pass has run on bodies of positive mass exactly at the
\* boundary dist = r_1 + r_2 + 5, their centres apart
C4_Witness ==
    /\ pc = "update"
    /\ DistSq(pre[1], pre[2]) = Sq(ContactRange(pre[1], pre[2]))
    /\ Gt(pre[1].mass, Zero) /\ Gt(pre[2].mass, Zero)
    /\ Gt(pre[1].radius, Zero) /\ Gt(pre[2].radius, Zero)

\* the update pass has run on the body pre[1]
MotionRan == pc = "collision"

InsideX(p) == Le(Zero, Sub(p.x, p.radius)) /\ Le(Add(p.x, p.radius), R(WIDTH))
InsideY(p) == Le(Zero, Sub(p.y, p.radius)) /\ Le(Add(p.y, p.radius), R(HEIGHT))
FitsX(p) == Le(Mul(R(2), p.radius), R(WIDTH))
FitsY(p) == Le(Mul(R(2), p.radius), R(HEIGHT))

\* C1 as stated: after the update pass every body, whatever its radius, has
\* x - radius >= 0, x + radius <= WIDTH, y - radius >= 0, y + radius <= HEIGHT.
C1_ContainedAnyRadius ==
    MotionRan => \A k \in 1..Len(planets) : InsideX(planets[k]) /\ InsideY(planets[k])

\* C1, amended: after the update pass a body whose diameter is at most WIDTH
\* has x - radius >= 0 and x + radius <= WIDTH, and one whose diameter is at
\* most HEIGHT has y - radius >= 0 and y + radius <= HEIGHT; a body wider than
\* the arena ends with its right edge on the right wall, a body taller than
\* the arena with its bottom edge on the bottom wall.
C1_ContainedWhenFits ==
    MotionRan =>
        \A k \in 1..Len(planets) :
            /\ IF FitsX(planets[k]) THEN InsideX(planets[k])
               ELSE Add(planets[k].x, planets[k].radius) = R(WIDTH)
            /\ IF FitsY(planets[k]) THEN InsideY(planets[k])
               ELSE Add(planets[k].y, planets[k].radius) = R(HEIGHT)

\* C1's case: the pass has run on a body of positive radius that fits the
\* arena and whose left edge was past the left wall, moving further left
C1_Witness ==
    /\ MotionRan
    /\ Gt(pre[1].radius, Zero) /\ FitsX(pre[1]) /\ FitsY(pre[1])
    /\ Lt(Sub(pre[1].x, pre[1].radius), Zero) /\ Lt(pre[1].vx, Zero)
    /\ planets[1].x = pre[1].radius

\* C2: velocity cap.  After the update pass every body has
\* vx^2 + vy^2 <= MAX_VELOCITY^2.
C2_VelocityCap ==
    MotionRan =>
        \A k \in 1..Len(planets) :
            Le(SpeedSq(planets[k]), R(MAX_VELOCITY * MAX_VELOCITY))

\* C2's case: the pass has run on a body faster than MAX_VELOCITY that also
\* bounced off the top wall
C2_Witness ==
    /\ MotionRan
    /\ Gt(SpeedSq(pre[1]), R(MAX_VELOCITY * MAX_VELOCITY))
    /\ Lt(pre[1].vy, Zero) /\ Gt(planets[1].vy, Zero)
    /\ planets[1].vx # Zero

\* the body of C9 before the pass: left edge past x = 0, moving left
PastLeftWall(p) == Lt(Sub(p.x, p.radius), Zero) /\ Lt(p.vx, Zero)

\* C9 as stated: the update pass leaves such a body with x = radius and
\* vx = -0.8 times its vx before the pass.
C9_LeftBounceOfOldVx ==
    (MotionRan /\ PastLeftWall(pre[1])) =>
        /\ planets[1].x = pre[1].radius
        /\ planets[1].vx = Mul(RESTITUTION, pre[1].vx)

\* C9, amended: the update pass leaves such a body, if its diameter is at
\* most WIDTH, with x = radius and vx = -0.8 times the vx that clamp_velocity
\* left: the vx before the pass when the speed was at most MAX_VELOCITY, and
\* vx * MAX_VELOCITY / speed otherwise (then vx > 0 and
\* vx^2 * speed_before^2 = (0.8 * MAX_VELOCITY)^2 * vx_before^2).
C9_LeftBounceOfClampedVx ==
    (MotionRan /\ PastLeftWall(pre[1]) /\ FitsX(pre[1])) =>
        /\ planets[1].x = pre[1].radius
        /\ IF Le(SpeedSq(pre[1]), R(MAX_VELOCITY * MAX_VELOCITY))
           THEN planets[1].vx = Mul(RESTITUTION, pre[1].vx)
           ELSE /\ Gt(planets[1].vx, Zero)
                /\ Mul(Sq(planets[1].vx), SpeedSq(pre[1]))
                     = Mul(Sq(Mul(RESTITUTION, R(MAX_VELOCITY))), Sq(pre[1].vx))

\* C9's case: the pass has run on such a body, faster than MAX_VELOCITY and
\* moving up as well, and has bounced it
C9_Witness ==
    /\ MotionRan
    /\ PastLeftWall(pre[1]) /\ FitsX(pre[1])
    /\ Gt(SpeedSq(pre[1]), R(MAX_VELOCITY * MAX_VELOCITY))
    /\ pre[1].vy # Zero
    /\ planets[1].vx # Mul(RESTITUTION, pre[1].vx)

\* the collision pass has run on the pair pre[1], pre[2]
CollisionRan == pc = "draw"

MinDist(p, q) == Add(p.radius, q.radius)

\* the velocities are what they were before the pass
SameVelocities ==
    \A k \in 1..Len(pre) : planets[k].vx = pre[k].vx /\ planets[k].vy = pre[k].vy

\* C5 as stated: after handle_collision on a pair with dist < r_1 + r_2 the
\* centres are exactly r_1 + r_2 apart and the velocities are what they were.
C5_OverlapResolvedAlways ==
    (CollisionRan /\ Lt(DistSq(pre[1], pre[2]), Sq(MinDist(pre[1], pre[2])))) =>
        /\ DistSq(planets[1], planets[2]) = Sq(MinDist(pre[1], pre[2]))
        /\ SameVelocities

\* C5, amended: after handle_collision on a pair with 0 < dist < r_1 + r_2
\* the centres are exactly r_1 + r_2 apart, the two bodies have moved by
\* opposite displacements along the line through the centres, each away from
\* the other by half the penetration depth r_1 + r_2 - dist, and the
\* velocities are what they were; a pair with dist = 0 is left as it was.
C5_OverlapResolvedApart ==
    CollisionRan =>
        /\ SameVelocities
        /\ DistSq(pre[1], pre[2]) = Zero => planets = pre
        /\ (/\ Gt(DistSq(pre[1], pre[2]), Zero)
            /\ Lt(DistSq(pre[1], pre[2]), Sq(MinDist(pre[1], pre[2])))) =>
              /\ DistSq(planets[1], planets[2]) = Sq(MinDist(pre[1], pre[2]))
              /\ Sub(planets[1].x, pre[1].x) = Neg(Sub(planets[2].x, pre[2].x))
              /\ Sub(planets[1].y, pre[1].y) = Neg(Sub(planets[2].y, pre[2].y))
              /\ Mul(Sub(planets[2].x, pre[2].x), Sub(pre[2].y, pre[1].y))
                   = Mul(Sub(planets[2].y, pre[2].y), Sub(pre[2].x, pre[1].x))
              /\ Gt(Add(Mul(Sub(planets[2].x, pre[2].x), Sub(pre[2].x, pre[1].x)),
                        Mul(Sub(planets[2].y, pre[2].y), Sub(pre[2].y, pre[1].y))), Zero)
              /\ Mul(R(4), DistSq(pre[2], planets[2]))
                   = Sq(Sub(MinDist(pre[1], pre[2]), Sqrt(DistSq(pre[1], pre[2]))))

\* C5's case: the pass has run on moving bodies of different radii that
\* overlapped with their centres apart, and has moved them
C5_Witness ==
    /\ CollisionRan
    /\ Gt(DistSq(pre[1], pre[2]), Zero)
    /\ Lt(DistSq(pre[1], pre[2]), Sq(MinDist(pre[1], pre[2])))
    /\ Gt(pre[1].radius, pre[2].radius) /\ Gt(pre[2].radius, Zero)
    /\ pre[1].vx # Zero /\ pre[2].vy # Zero
    /\ planets[1].x # pre[1].x /\ planets[1].y # pre[1].y

\* every body has positive mass and positive radius
PositiveBodies(ps) ==
    \A k \in 1..Len(ps) : Gt(ps[k].mass, Zero) /\ Gt(ps[k].radius, Zero)

\* C6 as stated: in every reachable state every body of the collection has
\* mass > 0 and radius > 0.
C6_PositiveMassAndRadius == PositiveBodies(planets)

\* C7: no division by zero.  A tick on bodies of positive mass and radius
\* never raises ZeroDivisionError: no pass stops at a zero divisor.
C7_NoZeroDivisor == PositiveBodies(planets) => pc # "crashed"

\* C7's case: a whole tick has run on two bodies of positive mass and radius
\* with coincident centres and zero velocity
C7_Witness ==
    /\ pc = "draw"
    /\ PositiveBodies(planets)
    /\ DistSq(planets[1], planets[2]) = Zero
    /\ \A k \in 1..Len(planets) : planets[k].vx = Zero /\ planets[k].vy = Zero

\* the passes of a tick
InTick == {"gravity", "update", "collision"}

\* the order in which the main loop moves
LoopOrder ==
    { <<"events", "gravity">>, <<"gravity", "update">>, <<"update", "collision">>,
      <<"collision", "draw">>, <<"draw", "events">>, <<"draw", "done">>,
      <<"gravity", "crashed">>, <<"update", "crashed">>, <<"collision", "crashed">> }

C8_TickStep ==
    /\ pc' # pc => <<pc, pc'>> \in LoopOrder
    /\ pc \in InTick =>
          /\ pc' # pc
          /\ n = Len(planets) /\ n' = n
          /\ Len(planets') = Len(planets)
    /\ Len(planets') # Len(planets) => pc = "events" /\ pc' = "events"
    /\ frames' # frames => pc = "draw" /\ frames' = frames + 1

\* C8: tick ordering.  In every frame the loop runs the gravity pass, then
\* the update pass, then the collision pass, once each and each after the one
\* before it has ended; the number of bodies changes only while events are
\* handled, so from the start of the gravity pass to the end of the collision
\* pass it is the n that the passes cover; a frame is counted only after the
\* three passes.
C8_TickOrder == [][C8_TickStep]_vars

\* C8's case: the three passes of a frame have run on two bodies and the
\* collision pass has moved them
C8_Witness ==
    /\ pc = "draw" /\ frames = 0
    /\ n = 2 /\ Len(planets) = 2
    /\ planets[1].x # pre[1].x

\* the click at event'.pos is outside both boxes
QualifyingClick(ev) ==
    /\ ev.type = "MOUSEBUTTONDOWN"
    /\ ~(collidepoint(mass_box.rect, ev.pos) \/ collidepoint(radius_box.rect, ev.pos))

C10_LifecycleStep ==
    /\ Len(planets') >= Len(planets)
    /\ \A k \in 1..Len(planets) :
          /\ planets'[k].mass = planets[k].mass
          /\ planets'[k].radius = planets[k].radius
    /\ pc = "events" => SubSeq(planets', 1, Len(planets)) = planets
    /\ pc # "events" => Len(planets') = Len(planets)
    /\ Len(planets') > Len(planets) =>
          /\ pc = "events" /\ QualifyingClick(event')
          /\ Len(planets') = Len(planets) + 1
    /\ (pc = "events" /\ pc' = "events" /\ QualifyingClick(event')) =>
          /\ Len(planets') = Len(planets) + 1
          /\ planets'[Len(planets')].x = R(event'.pos[1])
          /\ planets'[Len(planets')].y = R(event'.pos[2])
          /\ planets'[Len(planets')].vx = Zero
          /\ planets'[Len(planets')].vy = Zero
          /\ planets'[Len(planets')].mass = get_value(mass_box', DEFAULT_MASS)
          /\ planets'[Len(planets')].radius = get_value(radius_box', DEFAULT_RADIUS)

\* C10: append-only lifecycle.  No step makes the list shorter; every body
\* keeps its index, its mass and its radius; while events are handled the
\* bodies already there are untouched; the passes keep the length; the list
\* grows only by a click outside both boxes, and such a click appends exactly
\* one body, at the end, at the click, with zero velocity and the mass and
\* radius the boxes give.
C10_AppendOnly == [][C10_LifecycleStep]_vars

\* C10's case: a frame has ended on two spawned bodies that overlapped, and
\* overlap resolution has pushed them exactly r_1 + r_2 apart
C10_Witness ==
    /\ frames = 1 /\ pc = "events"
    /\ Len(planets) = 2
    /\ planets[1].radius = R(DEFAULT_RADIUS) /\ planets[2].radius = R(DEFAULT_RADIUS)
    /\ DistSq(planets[1], planets[2]) = Sq(MinDist(planets[1], planets[2]))

=============================================================================
